---------------------------- MODULE Spec2Model ----------------------------
(***************************************************************************)
(* Model of the matching core of text2geo (src/text2geo/geocoder.py):      *)
(* the record store, the name index built by Geocoder._build_index, and    *)
(* the operations geocode and geocode_batch with their exact path          *)
(* (_exact_match, _format) and fuzzy path (_fuzzy_match).                  *)
(*                                                                         *)
(* Conventions.                                                            *)
(*  - A Python str is a sequence of one-character strings.                 *)
(*  - NaN (a missing CSV cell) and None (an absent argument) are the       *)
(*    one-element sequences <<"NaN">> and <<"None">>, which no str of the  *)
(*    modelled alphabet equals.                                            *)
(*  - Record positions are 1-based here (df.iloc is 0-based).              *)
(*  - A similarity score is the exact rational [n, d] standing for n/d;    *)
(*    the library returns the nearest float.                               *)
(***************************************************************************)
EXTENDS Integers, Sequences, FiniteSets, TLC

VARIABLES df, name_to_indices, all_names, pc, call, result, memo

vars == <<df, name_to_indices, all_names, pc, call, result, memo>>

-----------------------------------------------------------------------------
(* Bounds of the model.                                                    *)

MaxRecords == 3

MaxTopN == 2

MaxBatch == 2

(* limit=20 of process.extract in _fuzzy_match.                            *)
Limit == 20

-----------------------------------------------------------------------------
(* Python values and str methods.                                          *)

NaN == <<"NaN">>

None == <<"None">>

isna(x) == x = NaN

UpperLetters == <<"K", "M", "O", "R", "S", "T", "U">>

LowerLetters == <<"k", "m", "o", "r", "s", "t", "u">>

Whitespace == {" ", "\t"}

lower_char(c) ==
    IF \E i \in 1..Len(UpperLetters) : UpperLetters[i] = c
    THEN LowerLetters[CHOOSE i \in 1..Len(UpperLetters) : UpperLetters[i] = c]
    ELSE c

upper_char(c) ==
    IF \E i \in 1..Len(LowerLetters) : LowerLetters[i] = c
    THEN UpperLetters[CHOOSE i \in 1..Len(LowerLetters) : LowerLetters[i] = c]
    ELSE c

(* str.lower() *)
lower(s) == [i \in 1..Len(s) |-> lower_char(s[i])]

(* str.upper() *)
upper(s) == [i \in 1..Len(s) |-> upper_char(s[i])]

(* str.strip(): drops leading and trailing whitespace only.                *)
strip(s) ==
    LET keep == {i \in 1..Len(s) : s[i] \notin Whitespace}
    IN  IF keep = {} THEN <<>>
        ELSE LET lo == CHOOSE i \in keep : \A j \in keep : i <= j
                 hi == CHOOSE i \in keep : \A j \in keep : j <= i
             IN  SubSeq(s, lo, hi)

(* str.split(","): the pieces between commas, empty pieces included.       *)
RECURSIVE split_from(_, _, _)
split_from(s, start, i) ==
    IF i > Len(s) THEN <<SubSeq(s, start, Len(s))>>
    ELSE IF s[i] = "," THEN <<SubSeq(s, start, i - 1)>> \o split_from(s, i + 1, i + 1)
    ELSE split_from(s, start, i + 1)

split(s) == split_from(s, 1, 1)

(* Truthiness of an optional str argument: None and "" are falsy.          *)
truthy(x) == x # None /\ x # <<>>

-----------------------------------------------------------------------------
(* The scorer: rapidfuzz.fuzz.WRatio as called by process.extract in       *)
(* _fuzzy_match, with no preprocessing of the strings.  It is computed     *)
(* here for strings holding a single whitespace-separated token.           *)

Max2(a, b) == IF a >= b THEN a ELSE b

(* Length of a longest common subsequence, by rows of the dynamic         *)
(* programme; a row is a sequence over columns 0..Len(b).                  *)
RECURSIVE lcs_row(_, _, _, _, _)
lcs_row(c, b, prev, j, acc) ==
    IF j > Len(b) THEN acc
    ELSE lcs_row(c, b, prev, j + 1,
                 Append(acc, IF c = b[j] THEN prev[j] + 1
                             ELSE Max2(prev[j + 1], acc[j])))

RECURSIVE lcs_rows(_, _, _, _)
lcs_rows(a, b, i, prev) ==
    IF i > Len(a) THEN prev[Len(b) + 1]
    ELSE lcs_rows(a, b, i + 1, lcs_row(a[i], b, prev, 1, <<0>>))

lcs_len(a, b) == lcs_rows(a, b, 1, [j \in 1..(Len(b) + 1) |-> 0])

(* Rational scores.                                                        *)
Score(n, d) == [n |-> n, d |-> d]

score_lt(x, y) == x.n * y.d < y.n * x.d

score_max(x, y) == IF score_lt(x, y) THEN y ELSE x

score_scale(x, n, d) == Score(x.n * n, x.d * d)

(* score < threshold, for an integer threshold.                            *)
below(x, threshold) == x.n < threshold * x.d

(* int(score): truncation.                                                 *)
int_score(x) == x.n \div x.d

(* fuzz.ratio: normalised Indel similarity, 100 * 2*LCS / (len1 + len2).   *)
ratio(s1, s2) ==
    IF Len(s1) + Len(s2) = 0 THEN Score(100, 1)
    ELSE Score(200 * lcs_len(s1, s2), Len(s1) + Len(s2))

(* fuzz.partial_ratio: the best ratio of the shorter string against the    *)
(* windows of the longer one: its prefixes shorter than the needle, its    *)
(* substrings of the needle's length and its suffixes shorter than it.     *)
RECURSIVE best_window(_, _, _)
best_window(needle, windows, best) ==
    IF windows = <<>> THEN best
    ELSE best_window(needle, Tail(windows),
                     score_max(best, ratio(needle, Head(windows))))

(* The windows of hay for a needle of length m, n being Len(hay).          *)
alignment_windows(hay, m, n) ==
    [i \in 1..(m - 1) |-> SubSeq(hay, 1, i)]
    \o [i \in 1..(n - m + 1) |-> SubSeq(hay, i, i + m - 1)]
    \o [i \in 1..(m - 1) |-> SubSeq(hay, n - i + 1, n)]

partial_ratio_of(needle, hay) ==
    IF Len(needle) = 0
    THEN (IF Len(hay) = 0 THEN Score(100, 1) ELSE Score(0, 1))
    ELSE best_window(needle, alignment_windows(hay, Len(needle), Len(hay)), Score(0, 1))

partial_ratio(s1, s2) ==
    partial_ratio_of(IF Len(s1) <= Len(s2) THEN s1 ELSE s2,
                     IF Len(s1) <= Len(s2) THEN s2 ELSE s1)

(* The sorted tokens of a string joined by one space: for a string of one  *)
(* token, the string without its surrounding whitespace.                   *)
tokens_joined(s) == strip(s)

(* fuzz.token_ratio: max(token_sort_ratio, token_set_ratio); both are the  *)
(* ratio of the two tokens when each string holds one token.               *)
token_ratio(s1, s2) == ratio(tokens_joined(s1), tokens_joined(s2))

(* fuzz.partial_token_ratio: 100 when the strings share a token, else the  *)
(* partial_ratio of the joined tokens.                                     *)
partial_token_ratio(s1, s2) ==
    IF tokens_joined(s1) = tokens_joined(s2) THEN Score(100, 1)
    ELSE partial_ratio(tokens_joined(s1), tokens_joined(s2))

Min2(a, b) == IF a <= b THEN a ELSE b

(* The weight of the partial ratios: 0.9, or 0.6 when the lengths differ   *)
(* by a factor above 8; in tenths.                                         *)
partial_scale(long, short) == IF long <= 8 * short THEN 9 ELSE 6

(* The branch of WRatio for lengths a factor 1.5 or more apart.           *)
WRatio_partial(base, partial, partial_token, pn) ==
    score_max(score_max(base, score_scale(partial, pn, 10)),
              score_scale(partial_token, 95 * pn, 1000))

(* fuzz.WRatio: 0 for an empty string; for lengths within a factor 1.5     *)
(* max(ratio, 0.95 * token_ratio); otherwise the partial ratios weigh in,  *)
(* scaled by 0.9 (length factor at most 8) or 0.6.                         *)
WRatio(s1, s2) ==
    IF Len(s1) = 0 \/ Len(s2) = 0 THEN Score(0, 1)
    ELSE IF 2 * Max2(Len(s1), Len(s2)) < 3 * Min2(Len(s1), Len(s2))
    THEN score_max(ratio(s1, s2), score_scale(token_ratio(s1, s2), 95, 100))
    ELSE WRatio_partial(ratio(s1, s2), partial_ratio(s1, s2),
                        partial_token_ratio(s1, s2),
                        partial_scale(Max2(Len(s1), Len(s2)),
                                      Min2(Len(s1), Len(s2))))

-----------------------------------------------------------------------------
(* The record store: the rows pandas.read_csv yields (Geocoder.__init__),  *)
(* drawn from a pool of places.  A missing cell reads as NaN.              *)

Row(id, name, ascii, alts, cc, pop) ==
    [geonameid |-> id, name |-> name, asciiname |-> ascii,
     alternatenames |-> alts, latitude |-> 50 + id, longitude |-> 70 + id,
     country_code |-> cc, population |-> pop]

RU == <<"R", "U">>

US == <<"U", "S">>

Pool ==
    { \* Omsk, RU; alternates "Oms,  ,omsk" (an empty piece, a duplicate)
      Row(1, <<"O","m","s","k">>, <<"O","m","s","k">>,
          <<"O","m","s",","," "," ",",","o","m","s","k">>, RU, 3),
      \* a second Omsk, US, smaller; no ASCII name, no alternates
      Row(2, <<"O","m","s","k">>, NaN, NaN, US, 1),
      \* Orsk, RU, as populous as Omsk
      Row(3, <<"O","r","s","k">>, <<"O","r","s","k">>, NaN, RU, 3),
      \* Tomsk with a trailing blank in the primary name, country unknown
      Row(4, <<"T","o","m","s","k"," ">>, <<"T","o","m","s","k">>, NaN, NaN, 2),
      \* a place whose primary name cell is missing
      Row(5, NaN, <<"T","o","m">>, NaN, RU, 1) }

Injective(s) == \A i, j \in DOMAIN s : s[i] = s[j] => i = j

RecordSets ==
    UNION { {s \in [1..n -> Pool] : Injective(s)} : n \in 0..MaxRecords }

(* df["alternatenames"].fillna("") *)
fillna_alternatenames(rows) ==
    [i \in 1..Len(rows) |->
        IF isna(rows[i].alternatenames)
        THEN [rows[i] EXCEPT !.alternatenames = <<>>]
        ELSE rows[i]]

-----------------------------------------------------------------------------
(* Geocoder._build_index                                                   *)

seq_range(s) == {s[i] : i \in DOMAIN s}

(* The set `names` of one row.  row["name"].lower() is taken whatever the  *)
(* cell holds.                                                             *)
names_of(row) ==
    {lower(row.name)}
    \cup (IF ~isna(row.asciiname) THEN {lower(row.asciiname)} ELSE {})
    \cup (IF row.alternatenames # <<>>
          THEN {lower(strip(alt)) : alt \in seq_range(split(row.alternatenames))}
               \ {<<>>}
          ELSE {})

(* row["name"].lower() raises AttributeError when the cell is NaN (a       *)
(* float).                                                                 *)
lower_raises(row) == isna(row.name)

(* The orders in which `for n in names` may visit a set: set iteration     *)
(* order is not fixed by the language.                                     *)
iteration_orders(S) ==
    {o \in [1..Cardinality(S) -> S] : \A x \in S : \E i \in DOMAIN o : o[i] = x}

RECURSIVE all_iteration_orders(_, _)
all_iteration_orders(rows, i) ==
    IF i > Len(rows) THEN {<<>>}
    ELSE {<<o>> \o rest : o \in iteration_orders(names_of(rows[i])),
                          rest \in all_iteration_orders(rows, i + 1)}

(* The dict as the pair of its keys in insertion order and its mapping.    *)
EmptyIndex == [keys |-> <<>>, map |-> [k \in {} |-> <<>>]]

(* self._name_to_indices.setdefault(n, []).append(idx) *)
setdefault_append(index, n, idx) ==
    IF n \in DOMAIN index.map
    THEN [keys |-> index.keys, map |-> [index.map EXCEPT ![n] = Append(@, idx)]]
    ELSE [keys |-> Append(index.keys, n),
          map  |-> [k \in DOMAIN index.map \cup {n} |->
                       IF k = n THEN <<idx>> ELSE index.map[k]]]

RECURSIVE add_names(_, _, _, _)
add_names(index, order, j, idx) ==
    IF j > Len(order) THEN index
    ELSE add_names(IF order[j] # <<>>
                   THEN setdefault_append(index, order[j], idx)
                   ELSE index,
                   order, j + 1, idx)

RECURSIVE build_index(_, _, _, _)
build_index(rows, orders, idx, index) ==
    IF idx > Len(rows) THEN index
    ELSE build_index(rows, orders, idx + 1,
                     add_names(index, orders[idx], 1, idx))

-----------------------------------------------------------------------------
(* Results.  A returned value is None, one dict or a list of dicts.        *)

NoneResult == [kind |-> "None", items |-> <<>>]

DictResult(d) == [kind |-> "dict", items |-> <<d>>]

ListResult(ds) == [kind |-> "list", items |-> ds]

(* No truncation. *)
first_n_all(s, n) == s

(* s[:n] of a list and DataFrame.head(n): the first n elements, or all but *)
(* the last -n when n is negative.                                         *)
first_n(s, n) ==
    IF n >= 0 THEN SubSeq(s, 1, IF n < Len(s) THEN n ELSE Len(s))
    ELSE SubSeq(s, 1, Len(s) + n)

(* A stable sort of s by descending key, keys[i] being the key of s[i], a  *)
(* pair of integers compared lexicographically: ties keep their order.     *)
pair_gt(x, y) == x[1] > y[1] \/ (x[1] = y[1] /\ x[2] > y[2])

stable_sort_desc(s, keys) ==
    LET n == Len(s)
        ahead(i) == Cardinality({j \in 1..n :
                        \/ pair_gt(keys[j], keys[i])
                        \/ (keys[j] = keys[i] /\ j < i)})
    IN  [k \in 1..n |-> s[CHOOSE i \in 1..n : ahead(i) = k - 1]]

-----------------------------------------------------------------------------
(* Geocoder._format: candidates are record positions.                      *)

exact_dict(row, score) ==
    [geonameid |-> row.geonameid, name |-> row.name, lat |-> row.latitude,
     lon |-> row.longitude, country |-> row.country_code,
     population |-> row.population, score |-> score]

(* The sort by population ascending. *)
by_population_ascending(i) == <<0 - df[i].population, 0>>

by_population(i) == <<df[i].population, 0>>

(* The dicts of the rows kept, as one dict or as the list.                 *)
format_results(head, score, top_n) ==
    IF top_n = 1 THEN DictResult(exact_dict(df[head[1]], score))
    ELSE ListResult([k \in 1..Len(head) |-> exact_dict(df[head[k]], score)])

format(candidates, score, top_n) ==
    LET keys   == [k \in 1..Len(candidates) |-> by_population(candidates[k])]
        sorted == stable_sort_desc(candidates, keys)
        head   == first_n(sorted, top_n)
    IN  format_results(head, score, top_n)

(* The filter dropped on the exact path. *)
passes_any(row, country) == TRUE

(* candidates["country_code"] == country.upper(), when a filter is given   *)
passes_filter(row, country) ==
    ~truthy(country) \/ row.country_code = upper(country)

(* Geocoder._exact_match *)
exact_result(candidates, top_n) ==
    IF candidates = <<>> THEN NoneResult
    ELSE format(candidates, 100, top_n)

exact_match(query_lower, country, top_n) ==
    exact_result(SelectSeq(name_to_indices[query_lower],
                           LAMBDA i : passes_filter(df[i], country)),
                 top_n)

-----------------------------------------------------------------------------
(* process.extract(query, choices, scorer=fuzz.WRatio, limit=Limit): every *)
(* choice scored, the best `limit` by descending score, equal scores in    *)
(* the order of the choices.                                               *)

RECURSIVE score_all(_, _, _)
score_all(query, choices, i) ==
    IF i > Len(choices) THEN <<>>
    ELSE <<[name |-> choices[i], score |-> WRatio(query, choices[i]), index |-> i]>>
         \o score_all(query, choices, i + 1)

ranked(scored) ==
    LET n == Len(scored)
        ahead(i) == Cardinality({j \in 1..n :
                        \/ score_lt(scored[i].score, scored[j].score)
                        \/ (/\ ~score_lt(scored[j].score, scored[i].score)
                            /\ j < i)})
    IN  [k \in 1..n |-> scored[CHOOSE i \in 1..n : ahead(i) = k - 1]]

extract(query, choices, limit) ==
    first_n(ranked(score_all(query, choices, 1)), limit)

(* Geocoder._fuzzy_match *)

fuzzy_dict(row, score, match_name) ==
    [geonameid |-> row.geonameid, name |-> row.name, lat |-> row.latitude,
     lon |-> row.longitude, country |-> row.country_code,
     population |-> row.population, score |-> int_score(score),
     matched_as |-> match_name]

(* The loop over the linked records without the `seen` test. *)
RECURSIVE scan_indices_unseen(_, _, _, _, _)
scan_indices_unseen(indices, k, match, country, st) ==
    IF k > Len(indices) THEN st
    ELSE scan_indices_unseen(indices, k + 1, match, country,
            [seen |-> st.seen \cup {indices[k]},
             candidates |->
                IF truthy(country) /\ df[indices[k]].country_code # upper(country)
                THEN st.candidates
                ELSE Append(st.candidates,
                            fuzzy_dict(df[indices[k]], match.score, match.name))])

(* for idx in self._name_to_indices[match_name]: ... *)
RECURSIVE scan_indices(_, _, _, _, _)
scan_indices(indices, k, match, country, st) ==
    IF k > Len(indices) THEN st
    ELSE LET idx == indices[k]
         IN  IF idx \in st.seen
             THEN scan_indices(indices, k + 1, match, country, st)
             ELSE scan_indices(indices, k + 1, match, country,
                    [seen |-> st.seen \cup {idx},
                     candidates |->
                        IF truthy(country) /\ df[idx].country_code # upper(country)
                        THEN st.candidates
                        ELSE Append(st.candidates,
                                    fuzzy_dict(df[idx], match.score, match.name))])

(* No key is skipped for its score. *)
skipped_never(match, threshold) == FALSE

(* if score < threshold: continue *)
skipped(match, threshold) == below(match.score, threshold)

(* for match_name, score, _ in matches: ... *)
RECURSIVE scan_matches(_, _, _, _, _)
scan_matches(matches, m, country, threshold, st) ==
    IF m > Len(matches) THEN st
    ELSE scan_matches(matches, m + 1, country, threshold,
            IF skipped(matches[m], threshold) THEN st
            ELSE scan_indices(name_to_indices[matches[m].name], 1,
                              matches[m], country, st))

by_score_population(c) == <<c.score, c.population>>

(* candidates.sort(key=lambda x: (-x["score"], -x["population"]))          *)
sort_candidates(found) ==
    stable_sort_desc(found,
                     [k \in 1..Len(found) |-> by_score_population(found[k])])

(* The return statements of _fuzzy_match: None, candidates[0] or           *)
(* candidates[:top_n].                                                     *)
fuzzy_result(found, top_n) ==
    IF found = <<>> THEN NoneResult
    ELSE IF top_n = 1 THEN DictResult(sort_candidates(found)[1])
    ELSE ListResult(first_n(sort_candidates(found), top_n))

fuzzy_match(query_lower, country, threshold, top_n) ==
    LET matches == extract(query_lower, all_names, Limit)
        found   == scan_matches(matches, 1, country, threshold,
                                [seen |-> {}, candidates |-> <<>>]).candidates
    IN  fuzzy_result(found, top_n)

-----------------------------------------------------------------------------
(* Geocoder.geocode *)

(* The query trimmed but not lower-cased. *)
normalize_no_lower(query) == strip(query)

normalize(query) == lower(strip(query))

(* `if exact is not None: return exact`, else the fuzzy path.              *)
exact_or(exact, fuzzy) == IF exact # NoneResult THEN exact ELSE fuzzy

(* The exact path's answer returned even when it is None. *)
geocode_no_fallthrough(query, country, threshold, top_n) ==
    LET query_lower == normalize(query)
    IN  IF query_lower = <<>> THEN NoneResult
        ELSE IF query_lower \in DOMAIN name_to_indices
        THEN exact_match(query_lower, country, top_n)
        ELSE fuzzy_match(query_lower, country, threshold, top_n)

geocode(query, country, threshold, top_n) ==
    LET query_lower == normalize(query)
    IN  IF query_lower = <<>> THEN NoneResult
        ELSE IF query_lower \in DOMAIN name_to_indices
        THEN exact_or(exact_match(query_lower, country, top_n),
                      fuzzy_match(query_lower, country, threshold, top_n))
        ELSE fuzzy_match(query_lower, country, threshold, top_n)

(* Geocoder.geocode_batch: one entry per query, in order.                  *)

not_found(q) ==
    [query |-> q, name |-> None, lat |-> None, lon |-> None, error |-> "not found"]

(* result["query"] = q *)
with_query(d, q) ==
    [f \in DOMAIN d \cup {"query"} |-> IF f = "query" THEN q ELSE d[f]]

(* The entry appended for a query, r being what geocode returned.          *)
entry_of(r, q) ==
    IF r = NoneResult THEN <<not_found(q)>>
    ELSE <<with_query(r.items[1], q)>>

(* A query without a match left out of the batch result. *)
batch_entry_omitting(q, country, threshold) ==
    LET r == geocode(q, country, threshold, 1)
    IN  IF r = NoneResult THEN <<>>
        ELSE <<with_query(r.items[1], q)>>

batch_entry(q, country, threshold) ==
    entry_of(geocode(q, country, threshold, 1), q)

RECURSIVE batch_from(_, _, _, _)
batch_from(queries, i, country, threshold) ==
    IF i > Len(queries) THEN <<>>
    ELSE batch_entry(queries[i], country, threshold)
         \o batch_from(queries, i + 1, country, threshold)

geocode_batch(queries, country, threshold) ==
    ListResult(batch_from(queries, 1, country, threshold))

-----------------------------------------------------------------------------
(* Arguments of the calls.                                                 *)

Queries ==
    { <<" ", "O", "M", "S", "K", "\t">>,   \* " OMSK\t"
      <<"O", "r", "s", "k">>,              \* "Orsk"
      <<"T", "o", "m", "s", "k">>,         \* "Tomsk"
      <<"o", "m", "k">>,                   \* "omk", a typo
      <<" ", " ">> }                       \* blank

Countries == {None, <<"u", "s">>, RU}

Thresholds == {0, 75, 89}

TopNs == 0..MaxTopN

BatchQueries == { <<" ", "O", "M", "S", "K", "\t">>, <<" ", " ">> }

Batches == UNION { [1..n -> BatchQueries] : n \in 0..MaxBatch }

BatchCountries == {None, <<"u", "s">>}

BatchThresholds == {75}

(* The smaller argument sets of the specification of repeated calls.       *)
RepeatQueries == { <<" ", "O", "M", "S", "K", "\t">>, <<"o", "m", "k">> }

RepeatCountries == {None, <<"u", "s">>}

RepeatTopNs == {1, MaxTopN}

RepeatBatches ==
    { <<<<"o", "m", "k">>>>, << <<" ", "O", "M", "S", "K", "\t">>, <<" ", " ">> >> }

-----------------------------------------------------------------------------
(* The state machine.  pc: "new" (rows read, index not built), "raised"    *)
(* (construction raised), "ready" (constructed, at rest), "done" (a call   *)
(* has returned `result` for `call`).  memo is a call remembered by the    *)
(* caller together with the result it returned.                            *)

NoCall == [op |-> "none", queries |-> <<>>, country |-> None,
           threshold |-> 0, top_n |-> 0]

NoMemo == [call |-> NoCall, result |-> NoneResult]

Init ==
    /\ df \in RecordSets
    /\ name_to_indices = EmptyIndex.map
    /\ all_names = EmptyIndex.keys
    /\ pc = "new"
    /\ call = NoCall
    /\ result = NoneResult
    /\ memo = NoMemo

(* Geocoder.__init__ from the rows read: fillna, then _build_index.        *)
Construct ==
    /\ pc = "new"
    /\ LET rows == fillna_alternatenames(df)
       IN  /\ df' = rows
           /\ IF \E i \in 1..Len(rows) : lower_raises(rows[i])
              THEN /\ pc' = "raised"
                   /\ UNCHANGED <<name_to_indices, all_names>>
              ELSE \E orders \in all_iteration_orders(rows, 1) :
                     LET index == build_index(rows, orders, 1, EmptyIndex)
                     IN  /\ name_to_indices' = index.map
                         /\ all_names' = index.keys
                         /\ pc' = "ready"
    /\ UNCHANGED <<call, result, memo>>

(* geocode with the country filter of the exact path applied in place to  *)
(* the list the index holds for the key.                                   *)
GeocodeFilteringInPlace(query, country, threshold, top_n) ==
    /\ pc = "ready"
    /\ call' = [op |-> "geocode", queries |-> <<query>>, country |-> country,
                threshold |-> threshold, top_n |-> top_n]
    /\ result' = geocode(query, country, threshold, top_n)
    /\ pc' = "done"
    /\ name_to_indices' =
          IF normalize(query) \in DOMAIN name_to_indices
          THEN [name_to_indices EXCEPT ![normalize(query)] =
                   SelectSeq(@, LAMBDA i : passes_filter(df[i], country))]
          ELSE name_to_indices
    /\ UNCHANGED <<df, all_names, memo>>

(* A call of geocode(query, country, threshold, top_n).                    *)
Geocode(query, country, threshold, top_n) ==
    /\ pc = "ready"
    /\ call' = [op |-> "geocode", queries |-> <<query>>, country |-> country,
                threshold |-> threshold, top_n |-> top_n]
    /\ result' = geocode(query, country, threshold, top_n)
    /\ pc' = "done"
    /\ UNCHANGED <<df, name_to_indices, all_names, memo>>

(* A call of geocode_batch(queries, country, threshold).                   *)
GeocodeBatch(queries, country, threshold) ==
    /\ pc = "ready"
    /\ call' = [op |-> "geocode_batch", queries |-> queries, country |-> country,
                threshold |-> threshold, top_n |-> 1]
    /\ result' = geocode_batch(queries, country, threshold)
    /\ pc' = "done"
    /\ UNCHANGED <<df, name_to_indices, all_names, memo>>

(* The caller takes the result; the geocoder is at rest again.             *)
Return ==
    /\ pc = "done"
    /\ pc' = "ready"
    /\ call' = NoCall
    /\ result' = NoneResult
    /\ UNCHANGED <<df, name_to_indices, all_names, memo>>

(* The caller takes the result and keeps it, with the call, for later.     *)
Remember ==
    /\ pc = "done"
    /\ memo = NoMemo
    /\ memo' = [call |-> call, result |-> result]
    /\ pc' = "ready"
    /\ call' = NoCall
    /\ result' = NoneResult
    /\ UNCHANGED <<df, name_to_indices, all_names>>

Next ==
    \/ Construct
    \/ \E q \in Queries, c \in Countries, t \in Thresholds, n \in TopNs :
          Geocode(q, c, t, n)
    \/ \E qs \in Batches, c \in BatchCountries, t \in BatchThresholds :
          GeocodeBatch(qs, c, t)
    \/ Return

Spec == Init /\ [][Next]_vars

NextRepeat ==
    \/ Construct
    \/ \E q \in RepeatQueries, c \in RepeatCountries, n \in RepeatTopNs :
          Geocode(q, c, 75, n)
    \/ \E qs \in RepeatBatches, c \in RepeatCountries :
          GeocodeBatch(qs, c, 75)
    \/ Remember
    \/ Return

SpecRepeat == Init /\ [][NextRepeat]_vars

-----------------------------------------------------------------------------
(* Vocabulary of the properties.                                           *)

Returned == pc = "done" /\ call.op = "geocode"

BatchReturned == pc = "done" /\ call.op = "geocode_batch"

(* The query of the returned geocode call, trimmed and lower-cased.        *)
QueryKey == lower(strip(call.queries[1]))

IsFuzzy(d) == "matched_as" \in DOMAIN d

Position(d) == CHOOSE i \in 1..Len(df) : df[i].geonameid = d.geonameid

(* The rows a country filter lets through.                                 *)
Admitted(country) ==
    {i \in 1..Len(df) : country = None \/ df[i].country_code = upper(country)}

(* The records linked to a key of the index.                               *)
Linked(key) == seq_range(name_to_indices[key])

(* The exact path answers: the key is indexed and the filter admits one    *)
(* of its records.                                                         *)
ExactAnswers ==
    /\ QueryKey \in DOMAIN name_to_indices
    /\ Linked(QueryKey) \cap Admitted(call.country) # {}

(* The variant keys of the candidate pool that reach the threshold.        *)
Retained ==
    {m \in seq_range(extract(QueryKey, all_names, Limit)) :
        ~below(m.score, call.threshold)}

(* Those among the keys R that are linked to record i.                     *)
KeysFor(R, i) == {m \in R : i \in Linked(m.name)}

(* The records the fuzzy path can return, R being the retained keys.       *)
FuzzyCandidates(R) ==
    {i \in Admitted(call.country) : KeysFor(R, i) # {}}

SetMax(S) == CHOOSE x \in S : \A y \in S : y <= x

-----------------------------------------------------------------------------
CountryFilterCorrect ==
    (pc = "done" /\ call.country # None)
    => \A k \in 1..Len(result.items) :
          "country" \in DOMAIN result.items[k]
          => result.items[k].country = upper(call.country)

CountryFilterWitness ==
    /\ Returned
    /\ call.country = <<"u", "s">>
    /\ result.items # <<>>
    /\ IsFuzzy(result.items[1])
    /\ result.items[1].country = US
    /\ \E i \in 1..Len(df) : df[i].country_code # US /\ KeysFor(Retained, i) # {}

(* C3. Fallthrough: when the normalized query is a key of the index and    *)
(* the country filter excludes every record linked to it, geocode returns  *)
(* what the fuzzy path yields for the same normalized query, filter,       *)
(* threshold and top_n.                                                    *)
Fallthrough ==
    (/\ Returned
     /\ QueryKey \in DOMAIN name_to_indices
     /\ Linked(QueryKey) \cap Admitted(call.country) = {})
    => result = fuzzy_match(QueryKey, call.country, call.threshold, call.top_n)

FallthroughWitness ==
    /\ Returned
    /\ QueryKey \in DOMAIN name_to_indices
    /\ Linked(QueryKey) \cap Admitted(call.country) = {}
    /\ result.kind = "dict"
    /\ IsFuzzy(result.items[1])
    /\ result.items[1].score < 100

(* C4. Fuzzy threshold: every entry produced by the fuzzy path reports a   *)
(* score not below the threshold of the call, and the variant key it was   *)
(* matched as scores at least the threshold.                               *)
FuzzyThreshold ==
    Returned
    => \A k \in 1..Len(result.items) :
          IsFuzzy(result.items[k])
          => /\ result.items[k].score >= call.threshold
             /\ ~below(WRatio(QueryKey, result.items[k].matched_as),
                       call.threshold)

FuzzyThresholdWitness ==
    /\ Returned
    /\ call.threshold = 89
    /\ result.items # <<>>
    /\ IsFuzzy(result.items[1])
    /\ \E j \in 1..Len(all_names) :
          /\ below(WRatio(QueryKey, all_names[j]), 89)
          /\ ~below(WRatio(QueryKey, all_names[j]), 75)
          /\ Linked(all_names[j]) \cap Admitted(call.country) # {}

(* C5. Batch shape: geocode_batch returns one entry per query, in the     *)
(* order of the queries; the entry of a query geocode finds nothing for    *)
(* is the failure marker with that query, null name and coordinates and    *)
(* error "not found"; any other entry is the result of geocode for that    *)
(* query alone, annotated with the query.                                  *)
BatchShape ==
    BatchReturned
    => /\ Len(result.items) = Len(call.queries)
       /\ \A k \in 1..Len(call.queries) :
             LET q    == call.queries[k]
                 item == result.items[k]
                 one  == geocode(q, call.country, call.threshold, 1)
             IN  /\ item.query = q
                 /\ IF one = NoneResult
                    THEN item = [query |-> q, name |-> None, lat |-> None,
                                 lon |-> None, error |-> "not found"]
                    ELSE /\ DOMAIN item = DOMAIN one.items[1] \cup {"query"}
                         /\ \A f \in DOMAIN one.items[1] : item[f] = one.items[1][f]

BatchShapeWitness ==
    /\ BatchReturned
    /\ Len(call.queries) = 2
    /\ strip(call.queries[1]) = <<>>
    /\ "error" \in DOMAIN result.items[1]
    /\ "score" \in DOMAIN result.items[2]

(* C6. Ranking: the entries geocode returns are in descending order of    *)
(* score and, for equal scores, of population; when the exact path         *)
(* answers, the first entry is a record of the greatest population among   *)
(* the records linked to the key that pass the country filter.             *)
Ranking ==
    Returned
    => /\ \A j, k \in 1..Len(result.items) :
             j < k => \/ result.items[j].score > result.items[k].score
                      \/ /\ result.items[j].score = result.items[k].score
                         /\ result.items[j].population >= result.items[k].population
       /\ (ExactAnswers /\ call.top_n >= 1)
          => /\ result.items # <<>>
             /\ Position(result.items[1])
                    \in Linked(QueryKey) \cap Admitted(call.country)
             /\ \A i \in Linked(QueryKey) \cap Admitted(call.country) :
                   df[i].population <= result.items[1].population

RankingWitness ==
    /\ Returned
    /\ ExactAnswers
    /\ call.top_n = 1
    /\ \E i \in Linked(QueryKey) \cap Admitted(call.country) :
          /\ df[i].population < result.items[1].population
          /\ i < Position(result.items[1])

(* C7. Result shape: geocode returns None exactly when no candidate        *)
(* survives matching and filtering; with candidates it returns one dict    *)
(* when top_n = 1 and otherwise a list of min(top_n, number of candidates) *)
(* entries, none of which ranks below a candidate left out.                *)
Candidates ==
    IF QueryKey = <<>> THEN {}
    ELSE IF ExactAnswers THEN Linked(QueryKey) \cap Admitted(call.country)
    ELSE FuzzyCandidates(Retained)

(* The rank of a candidate: its score, then its population.                *)
CandidateRank(R, i) ==
    << IF ExactAnswers THEN 100
       ELSE SetMax({int_score(m.score) : m \in KeysFor(R, i)}),
       df[i].population >>

ResultShape ==
    Returned
    => LET candidates == Candidates
           count      == Cardinality(candidates)
           returned   == {Position(result.items[k]) : k \in 1..Len(result.items)}
           left       == candidates \ returned
           R          == IF left = {} THEN {} ELSE Retained
       IN  /\ (result = NoneResult) <=> (count = 0)
           /\ (count > 0 /\ call.top_n = 1) => result.kind = "dict"
           /\ (count > 0 /\ call.top_n # 1)
              => /\ result.kind = "list"
                 /\ Len(result.items) =
                       (IF call.top_n < count THEN call.top_n ELSE count)
           /\ returned \subseteq candidates
           /\ \A k \in 1..Len(result.items) : \A i \in left :
                 ~pair_gt(CandidateRank(R, i),
                          <<result.items[k].score, result.items[k].population>>)

ResultShapeWitness ==
    /\ Returned
    /\ ~ExactAnswers
    /\ call.top_n > 1
    /\ Cardinality(Candidates) > call.top_n
    /\ result.kind = "list"
    /\ Len(result.items) = call.top_n

(* C9. Fuzzy deduplication: in a result of the fuzzy path no record        *)
(* appears twice, and the score and matched_as of an entry are those of a  *)
(* best-scoring variant key, among the keys of the candidate pool that     *)
(* reach the threshold, that is linked to the record.                      *)
FuzzyDedup ==
    (Returned /\ \E k \in 1..Len(result.items) : IsFuzzy(result.items[k]))
    => LET R == Retained
       IN  /\ \A j, k \in 1..Len(result.items) :
                 j # k => result.items[j].geonameid # result.items[k].geonameid
           /\ \A k \in 1..Len(result.items) :
                 LET d    == result.items[k]
                     keys == KeysFor(R, Position(d))
                 IN  /\ \E m \in keys :
                           /\ m.name = d.matched_as
                           /\ int_score(m.score) = d.score
                           /\ \A other \in keys : ~score_lt(m.score, other.score)
                     /\ \A other \in keys : int_score(other.score) <= d.score

FuzzyDedupWitness ==
    /\ Returned
    /\ call.top_n = MaxTopN
    /\ result.kind = "list"
    /\ Len(result.items) = 2
    /\ \E k \in 1..2 :
          /\ IsFuzzy(result.items[k])
          /\ \E m \in KeysFor(Retained, Position(result.items[k])) :
                int_score(m.score) < result.items[k].score

(* C10. Index construction never raises on name fields: whatever names a   *)
(* record lacks, construction completes.                                   *)
ConstructionNeverRaises == pc # "raised"

(* The step of C8: a step of the constructed geocoder leaves the record    *)
(* store, the index, the vocabulary and a kept result as they are, and a   *)
(* call repeating the remembered call returns the remembered result.       *)
IdempotentStep ==
    pc \in {"ready", "done"}
    => /\ df' = df
       /\ name_to_indices' = name_to_indices
       /\ all_names' = all_names
       /\ memo # NoMemo => memo' = memo
       /\ (pc' = "done" /\ memo # NoMemo /\ call' = memo.call)
          => result' = memo.result

(* C8. Idempotence: once the geocoder is constructed, no call changes the *)
(* record store, the name index or the vocabulary, a result the caller     *)
(* kept is not altered, and a call with the arguments of a remembered call *)
(* returns the remembered result.                                          *)
Idempotence == [][IdempotentStep]_vars

IdempotenceWitness ==
    /\ pc = "done"
    /\ memo # NoMemo
    /\ call = memo.call
    /\ call.country # None
    /\ result # NoneResult
    /\ result = memo.result

=============================================================================
